---- MODULE Spec2Model ----
(***************************************************************************)
(* Model of the Prometeo gas exposure analytics engine                     *)
(* (src/src/GasExposureAnalytics.py) and of the scheduler that drives it   *)
(* (src/src/core_decision_flask_app.py).                                   *)
(*                                                                         *)
(* Time.  Wall-clock values (now, current_timestamp) are whole seconds;    *)
(* the keys of sensor rows and of analytic rows are whole minutes, the     *)
(* minute number being floor(seconds / 60).                                *)
(*                                                                         *)
(* Numbers.  A float of the program is a record [kind, val]: a finite      *)
(* value, the infinite value np.inf, or the missing value np.nan.  A raw   *)
(* gas reading is in whole ppm; a time-weighted average of a gas is kept   *)
(* in units of 10^-r ppm, r being the gas's safe rounding factor, so that  *)
(* np.round(x, r) is an integer rounding of an exact quotient.             *)
(***************************************************************************)
EXTENDS Integers, Sequences, FiniteSets, TLC

VARIABLES
    configuration,         \* the loaded configuration document (immutable)
    sensor_log,            \* the data source: the set of sensor rows
    FF_TIME_SPANS_CACHE,   \* self._FF_TIME_SPANS_CACHE
    now,                   \* wall clock, seconds
    default_timestamp,     \* run_analytics' default argument value
    next_run_time,         \* the scheduler's next firing time, seconds
    call,                  \* the last call of run_analytics: its arguments
    timestamp_key,         \* the analysis minute of the last call
    sensor_log_df,         \* the block read by the last call
    ff_time_spans_df,      \* the working copy handed to aggregation
    analytics_df,          \* what the last call returned
    to_sql,                \* tables the last call handed to persistence
    outcome,               \* how the last call ended
    observed,              \* history: timestamps read per firefighter
                           \* since the cache was last reset
    critical_config_issues, \* the issues _validate_config collected
    http_response          \* the last response of GET /get_configuration

vars == <<configuration, sensor_log, FF_TIME_SPANS_CACHE, now,
          default_timestamp, next_run_time, call, timestamp_key,
          sensor_log_df, ff_time_spans_df, analytics_df, to_sql, outcome,
          observed, critical_config_issues, http_response>>

----------------------------------------------------------------------------
(* Bounds of the model *)

MaxMinute == 2          \* sensor rows are keyed on minutes 0..MaxMinute
MaxRows == 2            \* at most this many rows in the data source
MaxClockSteps == 6      \* the wall clock advances this many half minutes

----------------------------------------------------------------------------
(* Constants of the program *)

GREEN == 1
YELLOW == 2
RED == 3
RANGE_EXCEEDED == -1
GREEN_RANGE_START == 0
RED_RANGE_START == 99
RED_RANGE_END == RED_RANGE_START * 1000
ANALYTICS_FREQUENCY_SECONDS == 60
SecondsPerMinute == 60

----------------------------------------------------------------------------
(* Floats: finite values, np.inf and np.nan *)

Fin(n) == [kind |-> "fin", val |-> n]
INF == [kind |-> "inf", val |-> 0]
NAN == [kind |-> "nan", val |-> 0]

IsFin(x) == x.kind = "fin"
IsInf(x) == x.kind = "inf"
IsNaN(x) == x.kind = "nan"

RECURSIVE Pow10(_)
Pow10(r) == IF r = 0 THEN 1 ELSE 10 * Pow10(r - 1)

\* np.round / DataFrame.round of the exact quotient a / b (a >= 0, b > 0):
\* to the nearest integer, a tie going to the even one.
RoundQuotient(a, b) ==
    LET q == a \div b
        rem == a % b
    IN  IF 2 * rem < b THEN q
        ELSE IF 2 * rem > b THEN q + 1
        ELSE IF q % 2 = 0 THEN q ELSE q + 1

Min2(a, b) == IF a <= b THEN a ELSE b
Max2(a, b) == IF a >= b THEN a ELSE b
SetMin(S) == CHOOSE x \in S : \A y \in S : x <= y
SetMax(S) == CHOOSE x \in S : \A y \in S : x >= y

RECURSIVE SumVals(_)
\* the sum of the finite gas values of a set of (minute, value) pairs
SumVals(S) ==
    IF S = {} THEN 0
    ELSE LET p == CHOOSE p \in S : TRUE
         IN  p[2].val + SumVals(S \ {p})

----------------------------------------------------------------------------
(* The configuration document *)

WINDOWS_AND_LIMITS == configuration.windows_and_limits
SUPPORTED_GASES == configuration.supported_gases
YELLOW_WARNING_PERCENT == configuration.yellow_warning_percent
SAFE_ROUNDING_FACTORS == configuration.safe_rounding_factors
AUTOFILL_MINS == configuration.autofill_missing_sensor_logs_up_to_N_mins

WindowIdx == 1..Len(WINDOWS_AND_LIMITS)
WindowMins == {WINDOWS_AND_LIMITS[i].mins : i \in WindowIdx}
longest_block == SetMax(WindowMins)

----------------------------------------------------------------------------
(* run_analytics: the analysis minute *)

\* Timestamp.floor(freq='min'), as a minute number
FloorMin(seconds) == seconds \div SecondsPerMinute

\* timestamp_key = current_timestamp.floor(freq='min') - 1 minute
TimestampKey(current_timestamp) == FloorMin(current_timestamp) - 1

----------------------------------------------------------------------------
(* _get_block_of_sensor_readings *)

\* The block start without the minute that compensates the inclusive ends.
BlockStartNoPlusOne(block_end) == block_end - longest_block

\* block_start = block_end - longest_block + one_minute
BlockStart(block_end) == block_end - longest_block + 1

\* the rows whose timestamp lies in [block_start, block_end], both inclusive
\* (SQL 'between', DataFrame.loc[block_start:block_end])
SensorLogBlock(log, block_end) ==
    {r \in log : /\ BlockStart(block_end) <= r.timestamp_mins
                 /\ r.timestamp_mins <= block_end}

FirefightersIn(df) == {r.firefighter_id : r \in df}

\* groupby(firefighter_id)[timestamp_mins].agg(['min', 'max'])
ff_time_spans_in_this_block(df) ==
    [f \in FirefightersIn(df) |->
        LET ts == {r.timestamp_mins : r \in {x \in df : x.firefighter_id = f}}
        IN  [data_start |-> SetMin(ts), data_end |-> SetMax(ts)]]

\* self._FF_TIME_SPANS_CACHE is None
NoneCache == [is_none |-> TRUE, spans |-> [f \in {} |-> 0]]
SomeCache(spans) == [is_none |-> FALSE, spans |-> spans]

\* The cache without compounding protection: the autofill buffer is added
\* to the stored data_end as well.
UpdateCacheCompounding(cache, df) ==
    LET block == ff_time_spans_in_this_block(df)
        old == cache.spans
        a == AUTOFILL_MINS
    IN  IF cache.is_none
        THEN SomeCache([f \in DOMAIN block |->
                 [data_start |-> block[f].data_start,
                  data_end |-> block[f].data_end + a]])
        ELSE SomeCache([f \in (DOMAIN block) \cup (DOMAIN old) |->
                 IF f \notin DOMAIN old
                 THEN [data_start |-> block[f].data_start,
                       data_end |-> block[f].data_end + a]
                 ELSE IF f \notin DOMAIN block THEN old[f]
                 ELSE [data_start |-> Min2(block[f].data_start, old[f].data_start),
                       data_end |-> Max2(block[f].data_end, old[f].data_end) + a]])

\* The cache that forgets firefighters absent from this block.
UpdateCacheInner(cache, df) ==
    LET block == ff_time_spans_in_this_block(df)
        old == cache.spans
    IN  IF cache.is_none THEN SomeCache(block)
        ELSE SomeCache([f \in DOMAIN block |->
                 IF f \notin DOMAIN old THEN block[f]
                 ELSE [data_start |-> Min2(block[f].data_start, old[f].data_start),
                       data_end |-> Max2(block[f].data_end, old[f].data_end)]])

\* The cache taken anew from every block.
UpdateCacheFromBlockOnly(cache, df) ==
    SomeCache(ff_time_spans_in_this_block(df))

\* The stored cache after a non-empty block: created from the block's spans
\* the first time, else the outer merge of fmin(data_start) and
\* fmax(data_end), a firefighter on one side only keeping that side's value.
UpdateCache(cache, df) ==
    LET block == ff_time_spans_in_this_block(df)
        old == cache.spans
    IN  IF cache.is_none THEN SomeCache(block)
        ELSE SomeCache([f \in (DOMAIN block) \cup (DOMAIN old) |->
                 IF f \notin DOMAIN old THEN block[f]
                 ELSE IF f \notin DOMAIN block THEN old[f]
                 ELSE [data_start |-> Min2(block[f].data_start, old[f].data_start),
                       data_end |-> Max2(block[f].data_end, old[f].data_end)]])

\* The cache kept through an empty block.
CacheAfterEmptyBlockKept(cache) == cache

\* The empty block resets the cache.
CacheAfterEmptyBlock(cache) == NoneCache

\* The working copy without the autofill buffer.
WorkingCopyNoAutofill(cache) == cache.spans

\* ff_time_spans_df: a copy of the cache with the autofill buffer added to
\* every data_end
WorkingCopy(cache) ==
    [f \in DOMAIN cache.spans |->
        [data_start |-> cache.spans[f].data_start,
         data_end |-> cache.spans[f].data_end + AUTOFILL_MINS]]

----------------------------------------------------------------------------
(* _calculate_TWA_and_gauge_for_all_firefighters: range mask, quantization *)

\* the firefighter_id of a resampled row that no observation filled
NaNId == "NaN"

\* mask(cond = value < 0, other = np.inf)
MaskRangeExceeded(v) == IF v < 0 THEN INF ELSE Fin(v)

\* longest_window_df: the slice [T - longest + 1, T] with the gases masked
longest_window_df(df, T) ==
    {[firefighter_id |-> r.firefighter_id,
      timestamp_mins |-> r.timestamp_mins,
      gas |-> [g \in SUPPORTED_GASES |-> MaskRangeExceeded(r.gas[g])]] :
        r \in {x \in df : /\ T - longest_block + 1 <= x.timestamp_mins
                          /\ x.timestamp_mins <= T}}

\* Duplicate labels tolerated: one of the rows is kept.
HasDuplicateLabelsIgnored(df) == FALSE

\* Two rows of one firefighter on one minute: the reindex behind
\* resample().nearest() raises on the duplicate label.
HasDuplicateLabels(df) ==
    \E r1 \in df, r2 \in df :
        /\ r1 # r2
        /\ r1.firefighter_id = r2.firefighter_id
        /\ r1.timestamp_mins = r2.timestamp_mins

DirectMinutes(df, f) ==
    {r.timestamp_mins : r \in {x \in df : x.firefighter_id = f}}

DirectRow(df, f, m) ==
    CHOOSE r \in df : r.firefighter_id = f /\ r.timestamp_mins = m

\* Resampling without the nearest fill: only observed minutes have values.
HasNearestExact(D, m) == m \in D

\* nearest(limit=1) on the one-minute grid: the observation of the minute
\* itself, else the one a minute later (a tie goes to the larger label),
\* else the one a minute earlier.
HasNearest(D, m) == m \in D \/ (m + 1) \in D \/ (m - 1) \in D
Nearest(D, m) == IF m \in D THEN m ELSE IF (m + 1) \in D THEN m + 1 ELSE m - 1

\* groupby(firefighter_id).resample('1min').nearest(limit=1): per
\* firefighter one row for every minute from the first to the last
\* observation; a minute with no observation within one minute is a row of
\* missing values, its firefighter_id missing too.
longest_window_cleaned_df(lw) ==
    UNION {
        LET D == DirectMinutes(lw, f)
        IN  {IF HasNearest(D, m)
             THEN [firefighter_id |-> f, timestamp_mins |-> m,
                   gas |-> DirectRow(lw, f, Nearest(D, m)).gas]
             ELSE [firefighter_id |-> NaNId, timestamp_mins |-> m,
                   gas |-> [g \in SUPPORTED_GASES |-> NAN]] :
                m \in SetMin(D)..SetMax(D)}
        : f \in FirefightersIn(lw)}

----------------------------------------------------------------------------
(* One time window *)

\* Slices that do not nest: a window takes only the minutes no shorter
\* window covers.
window_dfRing(cleaned, T, L) ==
    {r \in cleaned : /\ T - L + 1 <= r.timestamp_mins
                     /\ r.timestamp_mins <= T
                     /\ \A K \in WindowMins :
                           K < L => r.timestamp_mins < T - K + 1}

\* The slice taken from T - L, one minute too long.
window_dfFromWindowEdge(cleaned, T, L) ==
    {r \in cleaned : T - L <= r.timestamp_mins /\ r.timestamp_mins <= T}

\* window_df = cleaned.loc[T - L + 1 : T]
window_df(cleaned, T, L) ==
    {r \in cleaned : T - L + 1 <= r.timestamp_mins /\ r.timestamp_mins <= T}

GroupOf(wdf, f) == {r \in wdf : r.firefighter_id = f}

\* window_df[firefighter_id].unique(), the missing id matching no span
ffs_in_this_window(wdf) == FirefightersIn(wdf) \ {NaNId}

\* assert(window_df.groupby(firefighter_id).size().max() <= window_mins);
\* the maximum over no group is missing and fails the comparison
RowCountAssertion(wdf, L) ==
    /\ ffs_in_this_window(wdf) # {}
    /\ \A f \in ffs_in_this_window(wdf) : Cardinality(GroupOf(wdf, f)) <= L

\* The overlap counted over inclusive minutes.
OverlapMinsInclusive(span, T, L) ==
    LET delta == Min2(span.data_end, T) - Max2(span.data_start, T - L) + 1
    IN  IF delta > 0 THEN delta ELSE 0

\* The overlap without coverage correction: always the whole window.
OverlapMinsWholeWindow(span, T, L) == L

\* (A.3) overlap of [T - L, T] with [data_start, data_end], never negative
OverlapMins(span, T, L) ==
    LET delta == Min2(span.data_end, T) - Max2(span.data_start, T - L)
    IN  IF delta > 0 THEN delta ELSE 0

\* (B) proportion_of_window as the numerator over L
ProportionNum(span, T, L) ==
    LET overlap_mins == OverlapMins(span, T, L)
    IN  IF overlap_mins < L THEN overlap_mins ELSE L

\* mean of the group times the proportion, rounded to the gas's factor.
\* An infinite value makes the mean infinite; inf * 0 is missing.
WindowTWA(wdf, spans, f, g, T, L) ==
    LET vals == {<<r.timestamp_mins, r.gas[g]>> : r \in GroupOf(wdf, f)}
        fin == {p \in vals : IsFin(p[2])}
        num == IF f \in DOMAIN spans THEN ProportionNum(spans[f], T, L) ELSE 0
    IN  IF f \notin DOMAIN spans THEN NAN
        ELSE IF \E p \in vals : IsInf(p[2])
             THEN (IF num = 0 THEN NAN ELSE INF)
        ELSE IF fin = {} THEN NAN
        ELSE Fin(RoundQuotient(SumVals(fin) * num * Pow10(SAFE_ROUNDING_FACTORS[g]),
                               Cardinality(fin) * L))

\* The gauge truncated instead of rounded.
WindowGaugeTruncated(twa, g, limit) ==
    IF IsFin(twa)
    THEN Fin((twa.val * 100) \div (limit * Pow10(SAFE_ROUNDING_FACTORS[g])))
    ELSE twa

\* gauge = (twa * 100 / limit).round(0)
WindowGauge(twa, g, limit) ==
    IF IsFin(twa)
    THEN Fin(RoundQuotient(twa.val * 100, limit * Pow10(SAFE_ROUNDING_FACTORS[g])))
    ELSE twa

----------------------------------------------------------------------------
(* Status classification *)

\* max(axis='columns') over the gauge fields, missing values skipped
MaxGauge(gauges) ==
    LET fin == {x \in gauges : IsFin(x)}
    IN  IF \E x \in gauges : IsInf(x) THEN INF
        ELSE IF fin = {} THEN NAN
        ELSE Fin(SetMax({x.val : x \in fin}))

\* bins = [0, yellow - 1, 99, 99000, inf]: pd.cut raises unless the edges
\* increase and are unique
BinsIncrease(yellow) ==
    /\ GREEN_RANGE_START < yellow - 1
    /\ yellow - 1 < RED_RANGE_START
    /\ RED_RANGE_START < RED_RANGE_END

\* Bins closed on the left: 99 opens the red bin.
CutLeftClosed(x, yellow) ==
    IF IsNaN(x) THEN NAN
    ELSE IF IsInf(x) THEN Fin(RANGE_EXCEEDED)
    ELSE IF x.val < GREEN_RANGE_START THEN NAN
    ELSE IF x.val < yellow - 1 THEN Fin(GREEN)
    ELSE IF x.val < RED_RANGE_START THEN Fin(YELLOW)
    ELSE IF x.val < RED_RANGE_END THEN Fin(RED)
    ELSE Fin(RANGE_EXCEEDED)

\* Yellow starting at the configured percentage plus one.
CutYellowLate(x, yellow) ==
    IF IsNaN(x) THEN NAN
    ELSE IF IsInf(x) THEN Fin(RANGE_EXCEEDED)
    ELSE IF x.val < GREEN_RANGE_START THEN NAN
    ELSE IF x.val <= yellow THEN Fin(GREEN)
    ELSE IF x.val <= RED_RANGE_START THEN Fin(YELLOW)
    ELSE IF x.val <= RED_RANGE_END THEN Fin(RED)
    ELSE Fin(RANGE_EXCEEDED)

\* A missing maximum read as zero.
CutMissingAsZero(x, yellow) ==
    IF IsNaN(x) THEN Fin(GREEN)
    ELSE IF IsInf(x) THEN Fin(RANGE_EXCEEDED)
    ELSE IF x.val < GREEN_RANGE_START THEN NAN
    ELSE IF x.val <= yellow - 1 THEN Fin(GREEN)
    ELSE IF x.val <= RED_RANGE_START THEN Fin(YELLOW)
    ELSE IF x.val <= RED_RANGE_END THEN Fin(RED)
    ELSE Fin(RANGE_EXCEEDED)

\* pd.cut(x, bins, include_lowest=True, labels=[GREEN, YELLOW, RED,
\* RANGE_EXCEEDED]): [0, yellow-1], (yellow-1, 99], (99, 99000],
\* (99000, inf]; a missing or out-of-bins value has no label.
Cut(x, yellow) ==
    IF IsNaN(x) THEN NAN
    ELSE IF IsInf(x) THEN Fin(RANGE_EXCEEDED)
    ELSE IF x.val < GREEN_RANGE_START THEN NAN
    ELSE IF x.val <= yellow - 1 THEN Fin(GREEN)
    ELSE IF x.val <= RED_RANGE_START THEN Fin(YELLOW)
    ELSE IF x.val <= RED_RANGE_END THEN Fin(RED)
    ELSE Fin(RANGE_EXCEEDED)

\* The substitution taking a missing value for np.inf as well.
SubstituteMissingToo(x, scale) ==
    IF IsInf(x) \/ IsNaN(x) THEN Fin(RANGE_EXCEEDED * scale) ELSE x

\* replace(np.inf, RANGE_EXCEEDED) on a field kept in units of 1/scale
Substitute(x, scale) == IF IsInf(x) THEN Fin(RANGE_EXCEEDED * scale) ELSE x

\* The classifier reading the gauges after the substitution.
StatusInputAfterSubstitution(gauges) == MaxGauge({Substitute(x, 1) : x \in gauges})

\* What the classifier reads: the gauges as computed, np.inf included.
StatusInput(gauges) == MaxGauge(gauges)

----------------------------------------------------------------------------
(* The merged table of one minute *)

\* a call that returned nothing
NoneDf == [is_none |-> TRUE, columns |-> {}, rows |-> [f \in {} |-> 0]]

LimitOf(L, g) ==
    LET i == CHOOSE i \in WindowIdx : WINDOWS_AND_LIMITS[i].mins = L
    IN  WINDOWS_AND_LIMITS[i].gas_limits[g]

\* the windows whose slice is not empty: the others add no columns
WindowsWithData(cleaned, T) ==
    {L \in WindowMins : window_df(cleaned, T, L) # {}}

\* a window's TWA of one firefighter before the final substitution; missing
\* when the firefighter has no row in the window's slice
InternalTWA(cleaned, spans, f, g, T, L) ==
    LET wdf == window_df(cleaned, T, L)
    IN  IF f \in ffs_in_this_window(wdf)
        THEN WindowTWA(wdf, spans, f, g, T, L)
        ELSE NAN

InternalGauge(cleaned, spans, f, g, T, L) ==
    WindowGauge(InternalTWA(cleaned, spans, f, g, T, L), g, LimitOf(L, g))

\* latest_sensor_readings_df: the rows of the cleaned frame at T
LatestFirefighters(cleaned, T) ==
    {r.firefighter_id : r \in {x \in cleaned : x.timestamp_mins = T}} \ {NaNId}

\* The sensor columns carried forward from f's latest row of the block.
latest_sensor_readings_carried_forward(cleaned, f, T) ==
    LET mine == {r \in cleaned : r.firefighter_id = f}
    IN  IF mine = {} THEN [g \in SUPPORTED_GASES |-> NAN]
        ELSE DirectRow(cleaned, f, SetMax({r.timestamp_mins : r \in mine})).gas

\* the sensor columns of f's row: those of latest_sensor_readings_df, the
\* rows of the cleaned frame at T, and missing values without one
latest_sensor_readings(cleaned, f, T) ==
    IF f \in LatestFirefighters(cleaned, T)
    THEN DirectRow(cleaned, f, T).gas
    ELSE [g \in SUPPORTED_GASES |-> NAN]

\* The status of a row from its gauges, then np.inf replaced by the
\* reporting constant in the raw gas, TWA and gauge fields.
ClassifiedRow(raw, twa, gauge, cols) ==
    [raw |-> [g \in SUPPORTED_GASES |-> Substitute(raw[g], 1)],
     twa |-> [L \in cols |-> [g \in SUPPORTED_GASES |->
                Substitute(twa[L][g], Pow10(SAFE_ROUNDING_FACTORS[g]))]],
     gauge |-> [L \in cols |-> [g \in SUPPORTED_GASES |->
                Substitute(gauge[L][g], 1)]],
     analytics_status_LED |->
         Cut(StatusInput({gauge[L][g] : L \in cols, g \in SUPPORTED_GASES}),
             YELLOW_WARNING_PERCENT)]

\* one row of everything_for_1_min_df
AnalyticsRow(cleaned, spans, f, T) ==
    LET cols == WindowsWithData(cleaned, T)
        twa == [L \in cols |-> [g \in SUPPORTED_GASES |->
                   InternalTWA(cleaned, spans, f, g, T, L)]]
        gauge == [L \in cols |-> [g \in SUPPORTED_GASES |->
                   InternalGauge(cleaned, spans, f, g, T, L)]]
        raw == latest_sensor_readings(cleaned, f, T)
    IN  ClassifiedRow(raw, twa, gauge, cols)

\* _calculate_TWA_and_gauge_for_all_firefighters: the table, or the fault
\* that ends the call (a duplicate label in the resample, the row count
\* assertion, bin edges pd.cut refuses)
CalculateTWAAndGauge(df, spans, T) ==
    LET lw == longest_window_df(df, T)
    IN  IF HasDuplicateLabels(lw) THEN [fault |-> TRUE, df |-> NoneDf]
        ELSE
        LET cleaned == longest_window_cleaned_df(lw)
            cols == WindowsWithData(cleaned, T)
            ffs == LatestFirefighters(cleaned, T) \cup
                   UNION {ffs_in_this_window(window_df(cleaned, T, L)) : L \in cols}
        IN  IF \E L \in cols : ~RowCountAssertion(window_df(cleaned, T, L), L)
            THEN [fault |-> TRUE, df |-> NoneDf]
            ELSE IF ~BinsIncrease(YELLOW_WARNING_PERCENT)
            THEN [fault |-> TRUE, df |-> NoneDf]
            ELSE [fault |-> FALSE,
                  df |-> [is_none |-> FALSE, columns |-> cols,
                          rows |-> [f \in ffs |-> AnalyticsRow(cleaned, spans, f, T)]]]

----------------------------------------------------------------------------
(* Inputs of the model *)

Firefighters == {"0001", "0002"}
Gas == "carbon_monoxide"

\* what a device reports for a gas: -1 for 'range exceeded', else ppm
SensorReadings == {-1, 0, 99}

Minutes == 0..MaxMinute

\* A valid configuration: two windows, one gas, the autofill buffer a.
Config(a, yellow) ==
    [windows_and_limits |->
        <<[mins |-> 2, gas_limits |-> [g \in {Gas} |-> 50]],
          [mins |-> 3, gas_limits |-> [g \in {Gas} |-> 100]]>>,
     supported_gases |-> {Gas},
     yellow_warning_percent |-> yellow,
     safe_rounding_factors |-> [g \in {Gas} |-> 1],
     autofill_missing_sensor_logs_up_to_N_mins |-> a]

AutofillInputs == {0, 1}
Configurations == {Config(a, 80) : a \in AutofillInputs}

\* the values of current_timestamp passed to run_analytics: one in every
\* minute that can still see a row and in the first one that cannot, on
\* the minute or half a minute into it
TimestampInputs ==
    {SecondsPerMinute * m + (SecondsPerMinute \div 2) * (m % 2) : m \in 1..(MaxMinute + 4)}

\* 'repeat' records that the call before this one was made with persistence
\* disabled for the same analysis minute and read the same block;
\* 'restart' records that an empty block discarded
\* observed timestamps ("dropped") and that this call is the first with a
\* non-empty block since ("restarted").
NoCall == [scheduled |-> FALSE, commit |-> FALSE, at |-> 0, repeat |-> FALSE,
           restart |-> "no"]

----------------------------------------------------------------------------
(* State after construction *)

\* no request for the configuration has been answered yet
NoResponse == [status |-> 0, body |-> <<>>]

InitEngine ==
    /\ sensor_log = {}
    /\ FF_TIME_SPANS_CACHE = NoneCache
    /\ call = NoCall
    /\ timestamp_key = 0
    /\ sensor_log_df = {}
    /\ ff_time_spans_df = [f \in {} |-> 0]
    /\ analytics_df = NoneDf
    /\ to_sql = <<>>
    /\ outcome = "idle"
    /\ observed = [f \in Firefighters |-> {}]
    /\ critical_config_issues = <<>>
    /\ http_response = NoResponse

Init ==
    /\ configuration \in Configurations
    /\ now = 0
    /\ default_timestamp = now
    /\ next_run_time = now + ANALYTICS_FREQUENCY_SECONDS
    /\ InitEngine

----------------------------------------------------------------------------
(* Actions *)

cfgVars == <<configuration, critical_config_issues>>
apiVars == <<http_response>>
clockVars == <<now, default_timestamp, next_run_time>>
engineVarsButOutcome == <<FF_TIME_SPANS_CACHE, call, timestamp_key, sensor_log_df,
                          ff_time_spans_df, analytics_df, to_sql, observed>>
engineVars == <<FF_TIME_SPANS_CACHE, call, timestamp_key, sensor_log_df,
                ff_time_spans_df, analytics_df, to_sql, outcome, observed>>

\* A device's row reaches the data source (any minute: rows may be late).
InsertRow ==
    \E f \in Firefighters, m \in Minutes, v \in SensorReadings :
        LET row == [firefighter_id |-> f, timestamp_mins |-> m,
                    gas |-> [g \in SUPPORTED_GASES |-> v]]
        IN  /\ Cardinality(sensor_log) < MaxRows
            /\ row \notin sensor_log
            /\ sensor_log' = sensor_log \cup {row}
            /\ UNCHANGED <<cfgVars, apiVars, clockVars, engineVars>>

\* Persistence fed as the table is built, whatever becomes of the tick.
PersistedTablesEagerly(res, commit) ==
    IF commit THEN <<res.df>> ELSE <<>>

\* the tables handed to to_sql by one call: the call is the last statement
\* before the return, so an exception raised by the calculation leaves
\* nothing persisted
PersistedTables(res, commit) ==
    IF ~res.fault /\ commit THEN <<res.df>> ELSE <<>>

\* run_analytics(current_timestamp, commit)
RunAnalyticsBody(current_timestamp, commit, scheduled) ==
    LET T == TimestampKey(current_timestamp)
        block == SensorLogBlock(sensor_log, T)
    IN  /\ call' = [scheduled |-> scheduled, commit |-> commit, at |-> now,
                     repeat |-> /\ outcome # "idle"
                                /\ ~call.commit
                                /\ T = timestamp_key
                                /\ block = sensor_log_df,
                     restart |->
                         IF block = {}
                         THEN (IF \/ call.restart = "dropped"
                                  \/ \E f \in Firefighters : observed[f] # {}
                               THEN "dropped" ELSE "no")
                         ELSE (IF outcome = "no_data" /\ call.restart = "dropped"
                               THEN "restarted" ELSE "no")]
        /\ timestamp_key' = T
        /\ sensor_log_df' = block
        /\ IF block = {}
           THEN /\ FF_TIME_SPANS_CACHE' = CacheAfterEmptyBlock(FF_TIME_SPANS_CACHE)
                /\ ff_time_spans_df' = [f \in {} |-> 0]
                /\ analytics_df' = NoneDf
                /\ to_sql' = <<>>
                /\ outcome' = "no_data"
                /\ observed' = [f \in Firefighters |-> {}]
           ELSE LET cache == UpdateCache(FF_TIME_SPANS_CACHE, block)
                    spans == WorkingCopy(cache)
                    res == CalculateTWAAndGauge(block, spans, T)
                IN  /\ FF_TIME_SPANS_CACHE' = cache
                    /\ ff_time_spans_df' = spans
                    /\ observed' = [f \in Firefighters |->
                           observed[f] \cup DirectMinutes(block, f)]
                    /\ to_sql' = PersistedTables(res, commit)
                    /\ IF res.fault
                       THEN /\ analytics_df' = NoneDf
                            /\ outcome' = "fault"
                       ELSE /\ analytics_df' = res.df
                            /\ outcome' = "done"

RunAnalytics ==
    \E current_timestamp \in TimestampInputs, commit \in BOOLEAN :
        /\ RunAnalyticsBody(current_timestamp, commit, FALSE)
        /\ UNCHANGED <<cfgVars, apiVars, clockVars, sensor_log>>

Next == InsertRow \/ RunAnalytics

Spec == Init /\ [][Next]_vars

----------------------------------------------------------------------------
(* The scheduler of core_decision_flask_app.py *)

HalfMinute == SecondsPerMinute \div 2
StartTimes == {0, HalfMinute}

\* The module is imported at 'now': the default value of run_analytics'
\* current_timestamp is evaluated then, once, and the interval job is
\* scheduled one period later.
InitScheduler ==
    /\ configuration \in Configurations
    /\ now \in StartTimes
    /\ default_timestamp = now
    /\ next_run_time = now + ANALYTICS_FREQUENCY_SECONDS
    /\ InitEngine

\* wall-clock time passes, up to the next firing of the job
AdvanceClock ==
    /\ now + HalfMinute <= next_run_time
    /\ now + HalfMinute <= MaxClockSteps * HalfMinute
    /\ now' = now + HalfMinute
    /\ UNCHANGED <<cfgVars, apiVars, default_timestamp, next_run_time, sensor_log,
                   engineVars>>

\* a device's row arrives, keyed on the minute in which it arrives
SensorRowArrives ==
    \E f \in Firefighters, v \in SensorReadings :
        LET row == [firefighter_id |-> f, timestamp_mins |-> FloorMin(now),
                    gas |-> [g \in SUPPORTED_GASES |-> v]]
        IN  /\ Cardinality(sensor_log) < MaxRows
            /\ row \notin sensor_log
            /\ sensor_log' = sensor_log \cup {row}
            /\ UNCHANGED <<cfgVars, apiVars, clockVars, engineVars>>

\* The interval job: perMinuteAnalytics.run_analytics() with no argument, so
\* current_timestamp is the default value and commit is True.
callGasExposureAnalytics ==
    /\ now = next_run_time
    /\ RunAnalyticsBody(default_timestamp, TRUE, TRUE)
    /\ next_run_time' = next_run_time + ANALYTICS_FREQUENCY_SECONDS
    /\ UNCHANGED <<cfgVars, apiVars, now, default_timestamp, sensor_log>>

NextScheduler == AdvanceClock \/ SensorRowArrives \/ callGasExposureAnalytics

SpecScheduler == InitScheduler /\ [][NextScheduler]_vars

----------------------------------------------------------------------------
(* The status classifier on its own: lines 484-496 applied to a row of     *)
(* gauges drawn from a bounded set, for every accepted whole yellow        *)
(* percentage.                                                             *)

MaxGaugeInput == 101
YellowInputs == 1..99

GaugeInputs ==
    {Fin(n) : n \in 0..MaxGaugeInput}
        \cup {Fin(RED_RANGE_END - 1), Fin(RED_RANGE_END), Fin(RED_RANGE_END + 1)}
        \cup {INF, NAN}
OtherGaugeInputs == {NAN, Fin(0), INF}

InitStatus ==
    /\ configuration \in {Config(1, y) : y \in YellowInputs}
    /\ now = 0
    /\ default_timestamp = now
    /\ next_run_time = now + ANALYTICS_FREQUENCY_SECONDS
    /\ InitEngine

\* everything_for_1_min_df holds one row whose two gauge fields are g1 and
\* g2; the row is classified and substituted.
Classify ==
    \E g1 \in GaugeInputs, g2 \in OtherGaugeInputs :
        LET f == "0001"
            cols == WindowMins
            gauge == [L \in cols |-> [g \in SUPPORTED_GASES |->
                        IF L = SetMin(cols) THEN g1 ELSE g2]]
            twa == [L \in cols |-> [g \in SUPPORTED_GASES |->
                        IF IsFin(gauge[L][g]) THEN NAN ELSE gauge[L][g]]]
            raw == [g \in SUPPORTED_GASES |-> NAN]
        IN  /\ outcome = "idle"
            /\ IF BinsIncrease(YELLOW_WARNING_PERCENT)
               THEN /\ analytics_df' =
                          [is_none |-> FALSE, columns |-> cols,
                           rows |-> [x \in {f} |-> ClassifiedRow(raw, twa, gauge, cols)]]
                    /\ outcome' = "done"
               ELSE /\ analytics_df' = NoneDf
                    /\ outcome' = "fault"
            /\ UNCHANGED <<cfgVars, apiVars, clockVars, sensor_log, FF_TIME_SPANS_CACHE,
                           call, timestamp_key, sensor_log_df, ff_time_spans_df,
                           to_sql, observed>>

SpecStatus == InitStatus /\ [][Classify]_vars

----------------------------------------------------------------------------
(* Scenario A: one firefighter, one reading, one 10-minute window, no      *)
(* autofill buffer.                                                        *)

MaxPpm == 20
ScenarioWindowMins == 10

ConfigScenarioA ==
    [windows_and_limits |->
        <<[mins |-> ScenarioWindowMins, gas_limits |-> [g \in {Gas} |-> 100]]>>,
     supported_gases |-> {Gas},
     yellow_warning_percent |-> 80,
     safe_rounding_factors |-> [g \in {Gas} |-> 1],
     autofill_missing_sensor_logs_up_to_N_mins |-> 0]

InitScenarioA ==
    /\ configuration = ConfigScenarioA
    /\ now = 0
    /\ default_timestamp = now
    /\ next_run_time = now + ANALYTICS_FREQUENCY_SECONDS
    /\ \E f \in Firefighters, m \in Minutes, v \in 0..MaxPpm :
          sensor_log = {[firefighter_id |-> f, timestamp_mins |-> m,
                         gas |-> [g \in {Gas} |-> v]]}
    /\ FF_TIME_SPANS_CACHE = NoneCache
    /\ call = NoCall
    /\ timestamp_key = 0
    /\ sensor_log_df = {}
    /\ ff_time_spans_df = [f \in {} |-> 0]
    /\ analytics_df = NoneDf
    /\ to_sql = <<>>
    /\ outcome = "idle"
    /\ observed = [f \in Firefighters |-> {}]
    /\ critical_config_issues = <<>>
    /\ http_response = NoResponse

SpecScenarioA == InitScenarioA /\ [][RunAnalytics]_vars

----------------------------------------------------------------------------
(* Construction: __init__ loads the configuration document and             *)
(* _validate_config checks it.  A number of the document is a record: its  *)
(* Python type and its value in hundredths.                                *)

IntNum(n) == [is_int |-> TRUE, c |-> n * 100]
FloatNum(c) == [is_int |-> FALSE, c |-> c]

\* SENSOR_RANGE_PPM, in hundredths of a ppm
SENSOR_RANGE_PPM ==
    [carbon_monoxide |-> [min |-> 100, max |-> 100000],
     nitrogen_dioxide |-> [min |-> 5, max |-> 1000]]

\* the order of the 'supported_gases' list of the document
GasOrder == <<"carbon_monoxide", "nitrogen_dioxide">>

\* not ((y > 0) and (y < 100)), accepting the bounds themselves
YellowIsValidInclusive(y) == y.c >= 0 /\ y.c <= 100 * 100

\* (YELLOW_WARNING_PERCENT > 0) and (YELLOW_WARNING_PERCENT < 100)
YellowIsValid(y) == y.c > 0 /\ y.c < 100 * 100

\* isinstance(x, int) and x >= 0
IsNonNegativeInt(x) == x.is_int /\ x.c >= 0

\* the issues of the range check of one gas, or the KeyError of the
\* look-up of a window's limit for it
RangeCheck(cfg, gas) ==
    LET w == cfg.windows_and_limits
    IN  IF \E i \in DOMAIN w : gas \notin DOMAIN w[i].gas_limits
        THEN [key_error |-> TRUE, issues |-> <<>>]
        ELSE LET limits == {w[i].gas_limits[gas].c : i \in DOMAIN w}
             IN  [key_error |-> FALSE,
                  issues |->
                      IF \/ SetMin(limits) < SENSOR_RANGE_PPM[gas].min
                         \/ SetMax(limits) > SENSOR_RANGE_PPM[gas].max
                      THEN <<[rule |-> "limit_out_of_range", gas |-> gas]>>
                      ELSE <<>>]

\* for gas in self.SUPPORTED_GASES: the range checks from the k-th gas on,
\* stopping at the first KeyError
RECURSIVE RangeChecks(_, _)
RangeChecks(cfg, k) ==
    IF k > Len(GasOrder) THEN [key_error |-> FALSE, issues |-> <<>>]
    ELSE IF GasOrder[k] \notin cfg.supported_gases THEN RangeChecks(cfg, k + 1)
    ELSE LET here == RangeCheck(cfg, GasOrder[k])
         IN  IF here.key_error THEN here
             ELSE LET rest == RangeChecks(cfg, k + 1)
                  IN  [key_error |-> rest.key_error,
                       issues |-> here.issues \o rest.issues]

RECURSIVE RoundingChecks(_, _)
RoundingChecks(cfg, k) ==
    IF k > Len(GasOrder) THEN <<>>
    ELSE IF GasOrder[k] \notin cfg.supported_gases THEN RoundingChecks(cfg, k + 1)
    ELSE (IF IsNonNegativeInt(cfg.safe_rounding_factors[GasOrder[k]])
          THEN <<>>
          ELSE <<[rule |-> "rounding_factor", gas |-> GasOrder[k]]>>)
         \o RoundingChecks(cfg, k + 1)

\* _validate_config: what it raises and the issues collected up to there
validate_config(cfg) ==
    LET w == cfg.windows_and_limits
        keys0 == DOMAIN w[1].gas_limits
        mismatched == IF \E i \in DOMAIN w : DOMAIN w[i].gas_limits # keys0
                      THEN <<[rule |-> "gas_sets_differ", gas |-> "all"]>>
                      ELSE <<>>
        uncovered == IF cfg.supported_gases \subseteq keys0
                     THEN <<>>
                     ELSE <<[rule |-> "gas_without_limit", gas |-> "all"]>>
        ranges == RangeChecks(cfg, 1)
        yellow == IF YellowIsValid(cfg.yellow_warning_percent)
                  THEN <<>>
                  ELSE <<[rule |-> "yellow_warning_percent", gas |-> "all"]>>
        autofill == IF IsNonNegativeInt(cfg.autofill_missing_sensor_logs_up_to_N_mins)
                    THEN <<>>
                    ELSE <<[rule |-> "autofill_mins", gas |-> "all"]>>
    IN  IF ranges.key_error
        THEN [raised |-> "KeyError",
              issues |-> mismatched \o uncovered \o ranges.issues]
        ELSE LET issues == mismatched \o uncovered \o ranges.issues \o yellow
                               \o RoundingChecks(cfg, 1) \o autofill
             IN  [raised |-> IF issues = <<>> THEN "none" ELSE "AssertionError",
                  issues |-> issues]

\* the warnings that do not stop the construction
ConfigWarnings(cfg) ==
    {"limit_close_to_range" : gas \in {g \in cfg.supported_gases :
        /\ \A i \in DOMAIN cfg.windows_and_limits :
              g \in DOMAIN cfg.windows_and_limits[i].gas_limits
        /\ 2 * SetMax({cfg.windows_and_limits[i].gas_limits[g].c :
                          i \in DOMAIN cfg.windows_and_limits})
               > SENSOR_RANGE_PPM[g].max}}
    \cup {"autofill_above_20" : x \in {a \in {cfg.autofill_missing_sensor_logs_up_to_N_mins} :
             IsNonNegativeInt(a) /\ a.c > 20 * 100}}

\* The configuration documents tried: two windows, each with limits for
\* carbon monoxide alone or for both gases.
GasSetInputs == {{"carbon_monoxide"}, {"carbon_monoxide", "nitrogen_dioxide"}}
LimitInputs == {FloatNum(50), IntNum(50), IntNum(600), IntNum(1001)}
YellowConfigInputs == {IntNum(0), IntNum(80), FloatNum(9950), IntNum(100)}
RoundingInputs == {IntNum(1), IntNum(0), IntNum(-1), FloatNum(150)}
AutofillConfigInputs == {IntNum(0), IntNum(21), IntNum(-1), FloatNum(1050)}

ConfigDocument(keys1, keys2, supported, limit, yellow, rounding, autofill) ==
    [windows_and_limits |->
        <<[mins |-> 2, gas_limits |-> [g \in keys1 |->
              IF g = "carbon_monoxide" THEN limit ELSE IntNum(5)]],
          [mins |-> 3, gas_limits |-> [g \in keys2 |->
              IF g = "carbon_monoxide" THEN IntNum(100) ELSE IntNum(5)]]>>,
     supported_gases |-> supported,
     yellow_warning_percent |-> yellow,
     safe_rounding_factors |-> [g \in {"carbon_monoxide", "nitrogen_dioxide"} |->
         IF g = "carbon_monoxide" THEN rounding ELSE IntNum(2)],
     autofill_missing_sensor_logs_up_to_N_mins |-> autofill]

ConfigDocuments ==
    {ConfigDocument(k1, k2, s, l, y, r, a) :
        k1 \in GasSetInputs, k2 \in GasSetInputs, s \in GasSetInputs,
        l \in LimitInputs, y \in YellowConfigInputs, r \in RoundingInputs,
        a \in AutofillConfigInputs}

\* before the engine is constructed
InitConstruction ==
    /\ configuration \in ConfigDocuments
    /\ now = 0
    /\ default_timestamp = now
    /\ next_run_time = now + ANALYTICS_FREQUENCY_SECONDS
    /\ sensor_log = {}
    /\ FF_TIME_SPANS_CACHE = NoneCache
    /\ call = NoCall
    /\ timestamp_key = 0
    /\ sensor_log_df = {}
    /\ ff_time_spans_df = [f \in {} |-> 0]
    /\ analytics_df = NoneDf
    /\ to_sql = <<>>
    /\ outcome = "not_constructed"
    /\ observed = [f \in Firefighters |-> {}]
    /\ critical_config_issues = <<>>
    /\ http_response = NoResponse

\* GasExposureAnalytics(): the instance exists ("idle") only when
\* _validate_config raised nothing
GasExposureAnalytics ==
    /\ outcome = "not_constructed"
    /\ LET v == validate_config(configuration)
       IN  /\ critical_config_issues' = v.issues
           /\ outcome' = IF v.raised = "none" THEN "idle" ELSE v.raised
    /\ UNCHANGED <<configuration, apiVars, clockVars, sensor_log,
                 engineVarsButOutcome>>

\* a call of run_analytics on the constructed instance
RunAnalyticsOfInstance ==
    /\ outcome \in {"idle", "no_data"}
    /\ RunAnalytics

\* the attributes GasExposureAnalytics.__init__ sets on the instance
EngineAttributes ==
    {"logger", "WINDOWS_AND_LIMITS", "SUPPORTED_GASES",
     "YELLOW_WARNING_PERCENT", "SAFE_ROUNDING_FACTORS", "AUTOFILL_MINS",
     "_FF_TIME_SPANS_CACHE", "_db_engine", "_from_db",
     "_sensor_log_from_csv_df"}

\* the response of abort(code)
Abort(code) == [status |-> code, body |-> <<>>]

\* GET /get_configuration on the running application (the module builds
\* perMinuteAnalytics when it is loaded, so the route exists only once the
\* constructor has returned): reading an attribute the instance does not
\* have raises AttributeError, which the handler answers with abort(500)
getConfiguration ==
    /\ outcome \notin {"not_constructed", "AssertionError", "KeyError"}
    /\ http_response' =
           IF "CONFIGURATION" \notin EngineAttributes
           THEN Abort(500)
           ELSE [status |-> 200, body |-> <<configuration>>]
    /\ UNCHANGED <<cfgVars, clockVars, sensor_log, engineVars>>

NextConstruction ==
    GasExposureAnalytics \/ RunAnalyticsOfInstance \/ getConfiguration

SpecConstruction == InitConstruction /\ [][NextConstruction]_vars

----------------------------------------------------------------------------
(* A block long enough to hold gaps: one firefighter's readings spread     *)
(* over the minutes 0..MaxGapMinute, a short window and one as long as the *)
(* whole span, analysed the way the unit tests do (commit = False).        *)

MaxGapMinute == 4
MaxGapRows == 3

GapMinutes == 0..MaxGapMinute

ConfigGaps ==
    [windows_and_limits |->
        <<[mins |-> 2, gas_limits |-> [g \in {Gas} |-> 50]],
          [mins |-> MaxGapMinute + 1, gas_limits |-> [g \in {Gas} |-> 100]]>>,
     supported_gases |-> {Gas},
     yellow_warning_percent |-> 80,
     safe_rounding_factors |-> [g \in {Gas} |-> 1],
     autofill_missing_sensor_logs_up_to_N_mins |-> 0]

\* the logs tried: one row per minute at most, on 1..MaxGapRows minutes
GapLogs ==
    {log \in SUBSET {[firefighter_id |-> "0001", timestamp_mins |-> m,
                      gas |-> [g \in {Gas} |-> v]] :
                        m \in GapMinutes, v \in SensorReadings} :
        /\ log # {}
        /\ Cardinality(log) <= MaxGapRows
        /\ \A r1 \in log, r2 \in log :
              r1.timestamp_mins = r2.timestamp_mins => r1 = r2}

InitGaps ==
    /\ configuration = ConfigGaps
    /\ now = 0
    /\ default_timestamp = now
    /\ next_run_time = now + ANALYTICS_FREQUENCY_SECONDS
    /\ sensor_log \in GapLogs
    /\ FF_TIME_SPANS_CACHE = NoneCache
    /\ call = NoCall
    /\ timestamp_key = 0
    /\ sensor_log_df = {}
    /\ ff_time_spans_df = [f \in {} |-> 0]
    /\ analytics_df = NoneDf
    /\ to_sql = <<>>
    /\ outcome = "idle"
    /\ observed = [f \in Firefighters |-> {}]
    /\ critical_config_issues = <<>>
    /\ http_response = NoResponse

\* run_analytics(current_timestamp, commit=False)
RunAnalyticsNoCommit ==
    \E m \in 1..(MaxGapMinute + 2) :
        /\ RunAnalyticsBody(SecondsPerMinute * m, FALSE, FALSE)
        /\ UNCHANGED <<cfgVars, apiVars, clockVars, sensor_log>>

SpecGaps == InitGaps /\ [][RunAnalyticsNoCommit]_vars

----------------------------------------------------------------------------
(* Properties *)

Rows == analytics_df.rows

GaugesOf(row) ==
    {row.gauge[L][g] : L \in DOMAIN row.gauge, g \in SUPPORTED_GASES}

\* a gauge field reports the range-exceeded constant
HasExceededGauge(row) == Fin(RANGE_EXCEEDED) \in GaugesOf(row)

\* the row's maximum gauge is a finite value in [lo, hi]
RowMaxIn(row, lo, hi) ==
    /\ ~HasExceededGauge(row)
    /\ \E x \in GaugesOf(row) :
          /\ IsFin(x)
          /\ \A y \in GaugesOf(row) : IsFin(y) => y.val <= x.val
          /\ lo <= x.val /\ x.val <= hi

\* the block read by the last call holds a range-exceeded sample of gas g
\* of firefighter f in the slice [T - L + 1, T]
SentinelInSlice(f, g, L) ==
    \E r \in sensor_log_df :
        /\ r.firefighter_id = f
        /\ timestamp_key - L + 1 <= r.timestamp_mins
        /\ r.timestamp_mins <= timestamp_key
        /\ r.gas[g] < 0

\* C1: a range-exceeded sample in a window's slice makes that window's TWA
\* and gauge of that gas and firefighter the reporting constant -1, and the
\* row's status RANGE_EXCEEDED (the gauge then being the row's maximum),
\* whatever the coverage proportion.
C1_SentinelPropagation ==
    outcome = "done" =>
        \A f \in Firefighters, L \in WindowMins, g \in SUPPORTED_GASES :
            SentinelInSlice(f, g, L) =>
                /\ f \in DOMAIN Rows
                /\ L \in analytics_df.columns
                /\ Rows[f].twa[L][g] =
                       Fin(RANGE_EXCEEDED * Pow10(SAFE_ROUNDING_FACTORS[g]))
                /\ Rows[f].gauge[L][g] = Fin(RANGE_EXCEEDED)
                /\ Rows[f].analytics_status_LED = Fin(RANGE_EXCEEDED)

\* C2: Scenario A.  The firefighter's only reading is V ppm at minute M,
\* autofill is 0 and the window is 10 minutes: the call that analyses
\* minute M reports TWA = round(V * 1/10, rounding factor).
C2_ScenarioA ==
    \A r \in sensor_log :
        ( /\ outcome = "done"
          /\ timestamp_key = r.timestamp_mins
          /\ AUTOFILL_MINS = 0
          /\ ScenarioWindowMins \in WindowMins
          /\ Cardinality({x \in sensor_log : x.firefighter_id = r.firefighter_id}) = 1 )
        => /\ r.firefighter_id \in DOMAIN Rows
           /\ ScenarioWindowMins \in analytics_df.columns
           /\ Rows[r.firefighter_id].twa[ScenarioWindowMins][Gas] =
                  Fin(RoundQuotient(r.gas[Gas] * 1 * Pow10(SAFE_ROUNDING_FACTORS[Gas]),
                                    ScenarioWindowMins))

\* C3: a call made by the scheduler analyses the minute before the minute
\* of the wall clock at that call.
C3_ScheduledTickAnalysesPreviousMinute ==
    call.scheduled => timestamp_key = FloorMin(call.at) - 1

\* C4 as stated: a row whose maximum gauge lies in [99, 99000] is RED.
C4_RedFrom99 ==
    \A f \in DOMAIN Rows :
        RowMaxIn(Rows[f], RED_RANGE_START, RED_RANGE_END)
            => Rows[f].analytics_status_LED = Fin(RED)

\* C4 amended: a row whose maximum gauge g satisfies 99 < g <= 99000 is
\* RED.
C4_RedAbove99 ==
    \A f \in DOMAIN Rows :
        RowMaxIn(Rows[f], RED_RANGE_START + 1, RED_RANGE_END)
            => Rows[f].analytics_status_LED = Fin(RED)

C4_Witness ==
    \E f \in DOMAIN Rows :
        /\ RowMaxIn(Rows[f], RED_RANGE_END, RED_RANGE_END)
        /\ Rows[f].analytics_status_LED = Fin(RED)

\* C5: for a whole yellow percentage y, a row whose maximum gauge is a
\* whole number g is GREEN when 0 <= g <= y - 1 and YELLOW when
\* y <= g <= 99.
C5_GreenYellowBoundary ==
    \A f \in DOMAIN Rows :
        /\ RowMaxIn(Rows[f], 0, YELLOW_WARNING_PERCENT - 1)
               => Rows[f].analytics_status_LED = Fin(GREEN)
        /\ RowMaxIn(Rows[f], YELLOW_WARNING_PERCENT, RED_RANGE_START)
               => Rows[f].analytics_status_LED = Fin(YELLOW)

C5_Witness ==
    \E f \in DOMAIN Rows :
        /\ RowMaxIn(Rows[f], YELLOW_WARNING_PERCENT, YELLOW_WARNING_PERCENT)
        /\ Rows[f].analytics_status_LED = Fin(YELLOW)
        /\ YELLOW_WARNING_PERCENT > 2

OutputValues(row) ==
    GaugesOf(row)
        \cup {row.twa[L][g] : L \in DOMAIN row.twa, g \in SUPPORTED_GASES}
        \cup {row.raw[g] : g \in SUPPORTED_GASES}

C7_AllGaugesMissing ==
    \A f \in DOMAIN Rows :
        (\A x \in GaugesOf(Rows[f]) : IsNaN(x))
            => IsNaN(Rows[f].analytics_status_LED)

C7_Witness ==
    /\ outcome = "done"
    /\ \E f \in DOMAIN Rows :
          /\ \A x \in GaugesOf(Rows[f]) : IsNaN(x)
          /\ IsNaN(Rows[f].analytics_status_LED)

\* C8: a call whose block holds no sensor rows returns nothing, writes
\* nothing even when commit is true, and resets the cache to its
\* uninitialised state.
C8_EmptyBlock ==
    (outcome # "idle" /\ sensor_log_df = {})
        => /\ outcome = "no_data"
           /\ analytics_df = NoneDf
           /\ to_sql = <<>>
           /\ FF_TIME_SPANS_CACHE = NoneCache

C8_Witness ==
    /\ outcome = "no_data"
    /\ call.commit
    /\ sensor_log # {}
    /\ FF_TIME_SPANS_CACHE = NoneCache

\* C9: while the cache exists, a firefighter's cached data_start never
\* moves later and data_end never moves earlier from one call to the next;
\* an entry disappears only in a call whose block is empty, which resets
\* the whole cache.
C9_CoverageMonotone ==
    [][ /\ (~FF_TIME_SPANS_CACHE.is_none /\ FF_TIME_SPANS_CACHE'.is_none)
              => (sensor_log_df' = {} /\ outcome' = "no_data")
        /\ (~FF_TIME_SPANS_CACHE.is_none /\ ~FF_TIME_SPANS_CACHE'.is_none)
              => \A f \in DOMAIN FF_TIME_SPANS_CACHE.spans :
                    /\ f \in DOMAIN FF_TIME_SPANS_CACHE'.spans
                    /\ FF_TIME_SPANS_CACHE'.spans[f].data_start
                           <= FF_TIME_SPANS_CACHE.spans[f].data_start
                    /\ FF_TIME_SPANS_CACHE'.spans[f].data_end
                           >= FF_TIME_SPANS_CACHE.spans[f].data_end
      ]_vars

\* the cache remembers a start earlier than anything in the current block
C9_Witness ==
    /\ outcome = "done"
    /\ ~FF_TIME_SPANS_CACHE.is_none
    /\ \E f \in DOMAIN FF_TIME_SPANS_CACHE.spans :
          /\ f \in FirefightersIn(sensor_log_df)
          /\ FF_TIME_SPANS_CACHE.spans[f].data_start
                 < SetMin(DirectMinutes(sensor_log_df, f))

\* C10: the autofill extension is applied to the working copy of each
\* call only; the cached data_end stays the latest minute actually
\* observed for the firefighter since the cache was created.
C10_AutofillNotCompounded ==
    ~FF_TIME_SPANS_CACHE.is_none =>
        \A f \in DOMAIN FF_TIME_SPANS_CACHE.spans :
            /\ observed[f] # {}
            /\ FF_TIME_SPANS_CACHE.spans[f].data_end = SetMax(observed[f])
            /\ f \in DOMAIN ff_time_spans_df
            /\ ff_time_spans_df[f].data_end
                   = FF_TIME_SPANS_CACHE.spans[f].data_end + AUTOFILL_MINS
            /\ ff_time_spans_df[f].data_start
                   = FF_TIME_SPANS_CACHE.spans[f].data_start

C10_Witness ==
    /\ AUTOFILL_MINS > 0
    /\ ~FF_TIME_SPANS_CACHE.is_none
    /\ \E f \in DOMAIN FF_TIME_SPANS_CACHE.spans :
          /\ f \notin FirefightersIn(sensor_log_df)
          /\ ff_time_spans_df[f].data_end
                 = FF_TIME_SPANS_CACHE.spans[f].data_end + AUTOFILL_MINS

\* C11: a call of run_analytics repeated for the same minute on the same
\* data with persistence disabled returns what the call before it
\* returned, and leaves the cache as that call left it.
C11_Idempotence ==
    [][ (call'.repeat /\ ~call'.commit)
            => /\ analytics_df' = analytics_df
               /\ outcome' = outcome
               /\ FF_TIME_SPANS_CACHE' = FF_TIME_SPANS_CACHE
               /\ to_sql' = <<>>
      ]_vars

C11_Witness ==
    /\ call.repeat
    /\ ~call.commit
    /\ outcome = "done"
    /\ AUTOFILL_MINS > 0
    /\ \E f \in DOMAIN FF_TIME_SPANS_CACHE.spans :
          f \notin FirefightersIn(sensor_log_df)

\* the rows of the data source in the Lmax minutes that end at minute T
RowsInSpan(T) ==
    {r \in sensor_log : /\ T - longest_block + 1 <= r.timestamp_mins
                        /\ r.timestamp_mins <= T}

\* C12: a call for analysis minute T reads exactly the rows of the Lmax
\* minutes [T - Lmax + 1, T], both ends inclusive; its result has a row for
\* firefighter f if and only if f has a reading among them, and it returns
\* nothing when there is none (so a reading at M contributes last at
\* T = M + Lmax - 1, and nothing is returned before the first reading).
C12_BlockSpanAndPresence ==
    [][ (sensor_log' = sensor_log)
            => /\ sensor_log_df' = RowsInSpan(timestamp_key)'
               /\ outcome' = "done"
                      => (~analytics_df'.is_none
                          /\ DOMAIN analytics_df'.rows
                                 = {r.firefighter_id : r \in RowsInSpan(timestamp_key)'})
               /\ RowsInSpan(timestamp_key)' = {}
                      => (analytics_df'.is_none /\ outcome' = "no_data")
      ]_vars

\* the minute after the last minute at which the only reading contributes
C12_Witness ==
    /\ outcome = "no_data"
    /\ analytics_df.is_none
    /\ sensor_log # {}
    /\ \A r \in sensor_log : r.timestamp_mins = timestamp_key - longest_block

\* the quantized block of the last call and one window's slice of it
CleanedBlock ==
    longest_window_cleaned_df(longest_window_df(sensor_log_df, timestamp_key))

SliceValues(f, g, L) ==
    {<<r.timestamp_mins, r.gas[g]>> :
        r \in {x \in CleanedBlock : /\ x.firefighter_id = f
                                    /\ timestamp_key - L + 1 <= x.timestamp_mins
                                    /\ x.timestamp_mins <= timestamp_key}}

\* overlap = max(0, min(data_end + autofill, T) - max(data_start, T - L)),
\* data_start and data_end being the cache's after the call's merge
CoverageOverlap(f, L) ==
    LET span == FF_TIME_SPANS_CACHE.spans[f]
        hi == IF span.data_end + AUTOFILL_MINS < timestamp_key
              THEN span.data_end + AUTOFILL_MINS ELSE timestamp_key
        lo == IF span.data_start > timestamp_key - L
              THEN span.data_start ELSE timestamp_key - L
    IN  IF hi - lo > 0 THEN hi - lo ELSE 0

\* proportion = min(1, overlap / L), as a numerator over L
CoverageProportionNum(f, L) ==
    IF CoverageOverlap(f, L) < L THEN CoverageOverlap(f, L) ELSE L

\* C13: for every window of length L and every firefighter with rows in
\* its slice, the reported TWA is the rounding of
\* mean(non-missing values of the slice) * proportion, with
\* overlap = max(0, min(data_end + autofill, T) - max(data_start, T - L)),
\* proportion = min(1, overlap / L), and one span per firefighter (the
\* cache's after this call's merge) for all the windows.
C13_CoverageCorrection ==
    outcome = "done" =>
        \A f \in DOMAIN Rows, L \in analytics_df.columns, g \in SUPPORTED_GASES :
            LET vals == SliceValues(f, g, L)
            IN  (vals # {} /\ \A p \in vals : IsFin(p[2]))
                    => /\ f \in DOMAIN FF_TIME_SPANS_CACHE.spans
                       /\ Rows[f].twa[L][g] =
                              Fin(RoundQuotient(
                                  SumVals(vals) * CoverageProportionNum(f, L)
                                      * Pow10(SAFE_ROUNDING_FACTORS[g]),
                                  Cardinality(vals) * L))

\* a partial coverage that the autofill buffer extends, on a value that
\* shows it
C13_Witness ==
    /\ outcome = "done"
    /\ AUTOFILL_MINS > 0
    /\ \E f \in DOMAIN Rows, L \in analytics_df.columns, g \in SUPPORTED_GASES :
          /\ SliceValues(f, g, L) # {}
          /\ \A p \in SliceValues(f, g, L) : IsFin(p[2]) /\ p[2].val > 0
          /\ FF_TIME_SPANS_CACHE.spans[f].data_end < timestamp_key
          /\ CoverageOverlap(f, L) > 0
          /\ CoverageOverlap(f, L) < L
          /\ IsFin(Rows[f].twa[L][g])
          /\ Rows[f].twa[L][g].val > 0

ReadingsOf(f) == {r.timestamp_mins : r \in {x \in sensor_log : x.firefighter_id = f}}

\* the overlap the call computed for f's window L, and the one it would
\* compute if f's latest reading were at the analysis minute
CallOverlap(spans, f, T, L) == OverlapMins(spans[f], T, L)

StillReportingOverlap(start, T, L) ==
    OverlapMins([data_start |-> start, data_end |-> T + AUTOFILL_MINS], T, L)

AutofillGrace(spans, cache, T) ==
    \A f \in DOMAIN spans, L \in WindowMins :
        LET M == SetMax(ReadingsOf(f))
            a == AUTOFILL_MINS
            start == cache.spans[f].data_start
        IN  /\ (M <= T /\ T <= M + a)
                => /\ CallOverlap(spans, f, T, L) = StillReportingOverlap(start, T, L)
                   /\ start <= T - L => ProportionNum(spans[f], T, L) = L
            /\ ( /\ T > M + a
                 /\ \E m \in ReadingsOf(f) : T - L + 1 <= m
                 /\ start <= T - L )
                => /\ ProportionNum(spans[f], T, L) < L
                   /\ CallOverlap(spans, f, T, L) = Max2(0, M + a - (T - L))

\* C14: Scenario C.  With f's last reading at M and autofill a, a call for
\* T in [M, M + a] gives every window the proportion f would have if still
\* reporting at T (1 when data_start <= T - L); for T > M + a the overlap
\* ends at M + a, so a window that still holds a reading and has
\* data_start <= T - L gets overlap M + a - (T - L), a proportion below 1
\* that does not grow with T.
C14_AutofillGracePeriod ==
    [][ (sensor_log' = sensor_log /\ outcome' = "done")
            => AutofillGrace(ff_time_spans_df', FF_TIME_SPANS_CACHE', timestamp_key')
      ]_vars

C14_Witness ==
    /\ outcome = "done"
    /\ AUTOFILL_MINS > 0
    /\ \E f \in DOMAIN ff_time_spans_df, L \in analytics_df.columns :
          /\ timestamp_key > SetMax(ReadingsOf(f)) + AUTOFILL_MINS
          /\ \E m \in ReadingsOf(f) : timestamp_key - L + 1 <= m
          /\ FF_TIME_SPANS_CACHE.spans[f].data_start <= timestamp_key - L
          /\ ProportionNum(ff_time_spans_df[f], timestamp_key, L) < L
          /\ ProportionNum(ff_time_spans_df[f], timestamp_key, L) > 0

\* the call analysed the minute of f's first-ever reading, a single sample
FirstReadingTick(f) ==
    /\ outcome = "done"
    /\ ReadingsOf(f) # {}
    /\ SetMin(ReadingsOf(f)) = timestamp_key
    /\ Cardinality({r \in sensor_log : /\ r.firefighter_id = f
                                       /\ r.timestamp_mins = timestamp_key}) = 1
    /\ \E r \in sensor_log_df : /\ r.firefighter_id = f
                                /\ r.timestamp_mins = timestamp_key

FirstSample(f) ==
    CHOOSE r \in sensor_log : /\ r.firefighter_id = f
                              /\ r.timestamp_mins = timestamp_key

TWABelowRaw(f, L, g) ==
    /\ f \in DOMAIN Rows
    /\ L \in analytics_df.columns
    /\ IsFin(Rows[f].twa[L][g])
    /\ Rows[f].twa[L][g].val
           < FirstSample(f).gas[g] * Pow10(SAFE_ROUNDING_FACTORS[g])

\* C15 as stated: at the call whose analysis minute is f's first-ever
\* reading, for every window longer than one minute and every gas, the
\* TWA is strictly less than the raw value of the single sample (an
\* in-range value: the range-exceeded constant is not a value).
C15_FirstReadingBelowRaw ==
    \A f \in Firefighters, L \in WindowMins, g \in SUPPORTED_GASES :
        (FirstReadingTick(f) /\ L > 1 /\ FirstSample(f).gas[g] >= 0)
            => TWABelowRaw(f, L, g)

\* C15 amended: the same, for every gas whose single sample is a positive
\* in-range value; a sample of 0 gives a TWA of 0, which is not below it.
C15_FirstReadingBelowPositiveRaw ==
    \A f \in Firefighters, L \in WindowMins, g \in SUPPORTED_GASES :
        (FirstReadingTick(f) /\ L > 1 /\ FirstSample(f).gas[g] > 0)
            => TWABelowRaw(f, L, g)

C15_Witness ==
    \E f \in Firefighters, L \in WindowMins, g \in SUPPORTED_GASES :
        /\ FirstReadingTick(f)
        /\ L > 1
        /\ FirstSample(f).gas[g] > 0
        /\ TWABelowRaw(f, L, g)
        /\ AUTOFILL_MINS > 0

\* the window's configured limit for the gas
ConfiguredLimit(L, g) ==
    LET w == CHOOSE w \in {WINDOWS_AND_LIMITS[i] : i \in DOMAIN WINDOWS_AND_LIMITS} :
                 w.mins = L
    IN  w.gas_limits[g]

\* C16: in every result row, for every window and gas whose TWA is a
\* finite value, Gauge = round(reported TWA * 100 / limit, 0) and
\* Gauge >= 0; a Gauge is negative only when it is the range-exceeded
\* constant.
C16_GaugeFormula ==
    \A f \in DOMAIN Rows, L \in analytics_df.columns, g \in SUPPORTED_GASES :
        LET twa == Rows[f].twa[L][g]
            gauge == Rows[f].gauge[L][g]
            scale == Pow10(SAFE_ROUNDING_FACTORS[g])
        IN  /\ (IsFin(twa) /\ twa.val >= 0)
                => /\ gauge = Fin(RoundQuotient(twa.val * 100,
                                                ConfiguredLimit(L, g) * scale))
                   /\ gauge.val >= 0
            /\ (IsFin(gauge) /\ gauge.val < 0)
                => /\ gauge = Fin(RANGE_EXCEEDED)
                   /\ twa = Fin(RANGE_EXCEEDED * scale)

\* a gauge that rounding moved up from the exact percentage
C16_Witness ==
    /\ outcome = "done"
    /\ \E f \in DOMAIN Rows, L \in analytics_df.columns, g \in SUPPORTED_GASES :
          /\ IsFin(Rows[f].twa[L][g])
          /\ Rows[f].twa[L][g].val > 0
          /\ IsFin(Rows[f].gauge[L][g])
          /\ Rows[f].gauge[L][g].val * ConfiguredLimit(L, g)
                 * Pow10(SAFE_ROUNDING_FACTORS[g])
                 > Rows[f].twa[L][g].val * 100

\* the firefighters with a reading in the slice [T - L + 1, T] of the block
\* read by the last call
InSlice(L) ==
    {r.firefighter_id :
        r \in {x \in sensor_log_df : /\ timestamp_key - L + 1 <= x.timestamp_mins
                                     /\ x.timestamp_mins <= timestamp_key}}

\* C17: a window whose slice is empty for every firefighter contributes no
\* fields; a window whose slice is empty for f but not for others gives f
\* a missing TWA and gauge, while every longer window whose slice still
\* holds a reading of f keeps reporting a value for f.
C17_PerWindowAvailability ==
    outcome = "done" =>
        /\ \A L \in WindowMins : InSlice(L) = {} => L \notin analytics_df.columns
        /\ \A L \in WindowMins, f \in DOMAIN Rows, g \in SUPPORTED_GASES :
              (InSlice(L) # {} /\ f \notin InSlice(L))
                  => /\ L \in analytics_df.columns
                     /\ IsNaN(Rows[f].twa[L][g])
                     /\ IsNaN(Rows[f].gauge[L][g])
                     /\ \A L2 \in WindowMins :
                           (L2 > L /\ f \in InSlice(L2))
                               => /\ L2 \in analytics_df.columns
                                  /\ ~IsNaN(Rows[f].twa[L2][g])
                                  /\ ~IsNaN(Rows[f].gauge[L2][g])

\* the block read by the last call holds two rows of one firefighter on
\* one minute
DuplicateInBlock ==
    \E r1 \in sensor_log_df, r2 \in sensor_log_df :
        /\ r1 # r2
        /\ r1.firefighter_id = r2.firefighter_id
        /\ r1.timestamp_mins = r2.timestamp_mins

\* C18: when the data source returns more than one row for the same
\* firefighter and minute, the call stops with a fault, returns no result
\* and hands nothing to persistence; it never drops or merges the extra
\* rows and continues.
C18_DuplicateRowsHalt ==
    (outcome # "idle" /\ DuplicateInBlock)
        => /\ outcome = "fault"
           /\ analytics_df.is_none
           /\ to_sql = <<>>

C18_Witness ==
    /\ DuplicateInBlock
    /\ call.commit
    /\ outcome = "fault"
    /\ to_sql = <<>>

\* The fatal rules a configuration document breaks, read off the document.
WindowsOf(cfg) == {cfg.windows_and_limits[i] : i \in DOMAIN cfg.windows_and_limits}

BrokenRules(cfg) ==
    {"gas_sets_differ" : x \in {<<w1, w2>> \in WindowsOf(cfg) \X WindowsOf(cfg) :
        DOMAIN w1.gas_limits # DOMAIN w2.gas_limits}}
    \cup {"gas_without_limit" : x \in {<<g, w>> \in cfg.supported_gases \X WindowsOf(cfg) :
        g \notin DOMAIN w.gas_limits}}
    \cup {"limit_out_of_range" : x \in {<<g, w>> \in cfg.supported_gases \X WindowsOf(cfg) :
        /\ g \in DOMAIN w.gas_limits
        /\ \/ w.gas_limits[g].c < SENSOR_RANGE_PPM[g].min
           \/ w.gas_limits[g].c > SENSOR_RANGE_PPM[g].max}}
    \cup {"yellow_warning_percent" : x \in {y \in {cfg.yellow_warning_percent} :
        ~(0 < y.c /\ y.c < 10000)}}
    \cup {"rounding_factor" : x \in {g \in cfg.supported_gases :
        ~(cfg.safe_rounding_factors[g].is_int /\ cfg.safe_rounding_factors[g].c >= 0)}}
    \cup {"autofill_mins" : x \in {a \in {cfg.autofill_missing_sensor_logs_up_to_N_mins} :
        ~(a.is_int /\ a.c >= 0)}}

ConstructionFailed == outcome \in {"AssertionError", "KeyError"}

ReportedRules == {critical_config_issues[i].rule : i \in DOMAIN critical_config_issues}

\* C19: every fatal rule is evaluated whatever the others give, and when
\* several are broken at once the single error raised lists all of them.
C19_ValidationAccumulates ==
    ConstructionFailed
        => /\ outcome = "AssertionError"
           /\ ReportedRules = BrokenRules(configuration)

DirectIn(f) == {r.timestamp_mins : r \in {x \in sensor_log_df : x.firefighter_id = f}}

QuantizedRows(f, m) ==
    {r \in CleanedBlock : r.firefighter_id = f /\ r.timestamp_mins = m}

WithinOneMinute(D, m) == \E d \in D : d - m <= 1 /\ m - d <= 1

\* the masked gas values of f's direct observation at minute d
ObservedGas(f, d) ==
    LET r == CHOOSE x \in sensor_log_df : x.firefighter_id = f /\ x.timestamp_mins = d
    IN  [g \in SUPPORTED_GASES |-> IF r.gas[g] < 0 THEN INF ELSE Fin(r.gas[g])]

\* f's window L spans a minute that stayed unfilled
SpansUnfilledMinute(f, L) ==
    \E m \in (timestamp_key - L + 1)..timestamp_key :
        /\ DirectIn(f) # {}
        /\ SetMin(DirectIn(f)) < m /\ m < SetMax(DirectIn(f))
        /\ ~WithinOneMinute(DirectIn(f), m)

C22_PassthroughOnlyAtT ==
    outcome = "done" =>
        \A f \in DOMAIN Rows, g \in SUPPORTED_GASES :
            IF timestamp_key \in DirectIn(f)
            THEN Rows[f].raw[g] =
                     (IF ObservedGas(f, timestamp_key)[g] = INF
                      THEN Fin(RANGE_EXCEEDED)
                      ELSE ObservedGas(f, timestamp_key)[g])
            ELSE IsNaN(Rows[f].raw[g])

\* no row at T, an earlier positive sample, a TWA that still has a value
C22_Witness ==
    /\ outcome = "done"
    /\ \E f \in DOMAIN Rows, L \in analytics_df.columns :
          /\ timestamp_key \notin DirectIn(f)
          /\ \E r \in sensor_log_df : r.firefighter_id = f /\ r.gas[Gas] > 0
          /\ IsNaN(Rows[f].raw[Gas])
          /\ IsFin(Rows[f].twa[L][Gas])
          /\ Rows[f].twa[L][Gas].val > 0

\* C23: after a successful start, a request for the configuration returns
\* the loaded configuration and not an error.
C23_ConfigurationReturned ==
    http_response # NoResponse =>
        /\ http_response.status = 200
        /\ http_response.body = <<configuration>>

\* C24: a tick hands at most one table to persistence, and only the
\* finished one: aggregated, classified and with the range-exceeded
\* constant substituted, for every firefighter of the block; a tick that
\* fails on the way, or finds no data, persists nothing.
C24_NoPartialCommit ==
    /\ Len(to_sql) <= 1
    /\ outcome \in {"fault", "no_data"} => to_sql = <<>>
    /\ to_sql # <<>> =>
          /\ outcome = "done"
          /\ call.commit
          /\ to_sql[1] = analytics_df
          /\ DOMAIN to_sql[1].rows = FirefightersIn(sensor_log_df)
          /\ \A f \in DOMAIN to_sql[1].rows :
                /\ to_sql[1].rows[f].analytics_status_LED \in
                       {Fin(GREEN), Fin(YELLOW), Fin(RED),
                        Fin(RANGE_EXCEEDED), NAN}
                /\ INF \notin OutputValues(to_sql[1].rows[f])

\* a committed tick whose table reports the range-exceeded constant for
\* one firefighter next to another firefighter's row
C24_Witness ==
    /\ outcome = "done"
    /\ call.commit
    /\ Len(to_sql) = 1
    /\ Cardinality(DOMAIN to_sql[1].rows) = 2
    /\ \E f \in DOMAIN to_sql[1].rows : HasExceededGauge(to_sql[1].rows[f])

\* C25: after a call whose block is empty the cache is empty, and the next
\* call with a non-empty block stores for every firefighter of that block
\* exactly (earliest, latest) of that firefighter's timestamps in that
\* block, for nobody else; the result of that call is the one an engine
\* that had never seen a row before would return.
C25_RestartAfterEmptyBlock ==
    [][ sensor_log' = sensor_log =>
          /\ sensor_log_df' = {} => FF_TIME_SPANS_CACHE' = NoneCache
          /\ (outcome = "no_data" /\ sensor_log_df' # {}) =>
                /\ ~FF_TIME_SPANS_CACHE'.is_none
                /\ DOMAIN FF_TIME_SPANS_CACHE'.spans = FirefightersIn(sensor_log_df')
                /\ \A f \in FirefightersIn(sensor_log_df') :
                      /\ FF_TIME_SPANS_CACHE'.spans[f].data_start
                             = SetMin(DirectMinutes(sensor_log_df', f))
                      /\ FF_TIME_SPANS_CACHE'.spans[f].data_end
                             = SetMax(DirectMinutes(sensor_log_df', f))
                /\ observed' = [f \in Firefighters |->
                                   DirectMinutes(sensor_log_df', f)]
                /\ LET fresh == CalculateTWAAndGauge(sensor_log_df',
                                    WorkingCopy(SomeCache(
                                        ff_time_spans_in_this_block(sensor_log_df'))),
                                    timestamp_key')
                   IN  analytics_df' = IF fresh.fault THEN NoneDf ELSE fresh.df
      ]_vars

\* the first non-empty block after an empty one that discarded a timestamp
\* lying outside the spans stored now
C25_Witness ==
    /\ call.restart = "restarted"
    /\ outcome = "done"
    /\ \E f \in DOMAIN FF_TIME_SPANS_CACHE.spans :
          \E m \in ReadingsOf(f) :
              \/ m < FF_TIME_SPANS_CACHE.spans[f].data_start
              \/ m > FF_TIME_SPANS_CACHE.spans[f].data_end

\* C26: a call with a non-empty block leaves the cache entries of the
\* firefighters without a row in that block as they were, neither removed
\* nor changed; an entry goes only when an empty block resets the whole
\* cache, however long its firefighter has been silent.
C26_AbsentFirefightersKept ==
    [][ (sensor_log' = sensor_log /\ sensor_log_df' # {}
            /\ ~FF_TIME_SPANS_CACHE.is_none) =>
          /\ ~FF_TIME_SPANS_CACHE'.is_none
          /\ \A f \in DOMAIN FF_TIME_SPANS_CACHE.spans :
                f \notin FirefightersIn(sensor_log_df') =>
                    /\ f \in DOMAIN FF_TIME_SPANS_CACHE'.spans
                    /\ FF_TIME_SPANS_CACHE'.spans[f] = FF_TIME_SPANS_CACHE.spans[f]
      ]_vars

\* a firefighter whose latest reading lies before the start of the block
\* just analysed still has the cache entry
C26_Witness ==
    /\ outcome = "done"
    /\ \E f \in DOMAIN FF_TIME_SPANS_CACHE.spans :
          /\ f \notin FirefightersIn(sensor_log_df)
          /\ FirefightersIn(sensor_log_df) # {}
          /\ FF_TIME_SPANS_CACHE.spans[f].data_end
                 < BlockStart(timestamp_key)
          /\ FF_TIME_SPANS_CACHE.spans[f].data_start
                 = SetMin(observed[f])

\* C27: a yellow percentage that _validate_config accepts gives strictly
\* increasing bin edges 0 < yellow - 1 < 99 < 99000, and the classifier
\* does not fail under it.
C27_AcceptedYellowClassifies ==
    (YellowIsValid(IntNum(YELLOW_WARNING_PERCENT)) /\ outcome # "idle") =>
        /\ BinsIncrease(YELLOW_WARNING_PERCENT)
        /\ outcome = "done"

\* the rows of the quantized block in the slice [T - L + 1, T], and those
\* of them that belong to f
SliceRows(L) ==
    {x \in CleanedBlock : /\ timestamp_key - L + 1 <= x.timestamp_mins
                          /\ x.timestamp_mins <= timestamp_key}

SliceRowsOf(f, L) == {x \in SliceRows(L) : x.firefighter_id = f}

\* C28: when the block holds at most one raw row per firefighter and
\* minute, every configured window's slice [T - L + 1, T] of the quantized
\* block holds at most L rows per firefighter (and, when it is not empty,
\* a row of some firefighter), so the row-count assertion does not fire and
\* the call completes.
C28_RowCountHolds ==
    (outcome \notin {"idle", "no_data"} /\ ~DuplicateInBlock) =>
        /\ outcome = "done"
        /\ \A L \in WindowMins :
              /\ \A f \in Firefighters : Cardinality(SliceRowsOf(f, L)) <= L
              /\ SliceRows(L) # {} =>
                    \E f \in Firefighters : SliceRowsOf(f, L) # {}

\* a slice filled to the last row next to a slice that holds a minute
\* nobody reported near
C28_Witness ==
    /\ outcome = "done"
    /\ \E f \in Firefighters, L \in WindowMins :
          Cardinality(SliceRowsOf(f, L)) = L
    /\ \E L \in WindowMins : SliceRowsOf(NaNId, L) # {}

\* C29: in a result, a firefighter's TWA of a window being present makes
\* the TWA of every longer configured window present as well, for the same
\* gas: values drop out from the shortest window upwards.
C29_WindowNesting ==
    outcome = "done" =>
        \A f \in DOMAIN Rows, g \in SUPPORTED_GASES :
            \A L1 \in analytics_df.columns, L2 \in WindowMins :
                (L1 < L2 /\ ~IsNaN(Rows[f].twa[L1][g])) =>
                    /\ L2 \in analytics_df.columns
                    /\ ~IsNaN(Rows[f].twa[L2][g])

\* one firefighter with a value in both windows, and one whose value has
\* dropped out of the shorter window only
C29_Witness ==
    /\ outcome = "done"
    /\ \E f \in DOMAIN Rows, L1 \in analytics_df.columns,
          L2 \in analytics_df.columns :
          /\ L1 < L2
          /\ ~IsNaN(Rows[f].twa[L1][Gas])
          /\ ~IsNaN(Rows[f].twa[L2][Gas])
    /\ \E f \in DOMAIN Rows, L1 \in analytics_df.columns,
          L2 \in analytics_df.columns :
          /\ L1 < L2
          /\ IsNaN(Rows[f].twa[L1][Gas])
          /\ ~IsNaN(Rows[f].twa[L2][Gas])

\* a reported field: missing, a finite value that is not negative, or the
\* range-exceeded constant (in the field's unit)
IsReportable(x, scale) ==
    \/ IsNaN(x)
    \/ IsFin(x) /\ x.val >= 0
    \/ x = Fin(RANGE_EXCEEDED * scale)

\* x reports the value 'internal' held before the substitution: the
\* constant exactly for infinity, missing exactly for missing, else itself
Reports(x, internal, scale) ==
    /\ x = Fin(RANGE_EXCEEDED * scale) <=> IsInf(internal)
    /\ IsNaN(x) <=> IsNaN(internal)
    /\ IsFin(internal) => x = internal

\* C30: every raw gas, TWA and gauge field of a returned or persisted table
\* is missing, finite and not negative, or exactly -1; infinity never
\* appears; a field is -1 exactly when the value computed for it was
\* infinite, and a missing value stays missing.
C30_OutputDomain ==
    outcome = "done" =>
        /\ \A i \in DOMAIN to_sql : to_sql[i] = analytics_df
        /\ \A f \in DOMAIN Rows, g \in SUPPORTED_GASES :
              /\ IsReportable(Rows[f].raw[g], 1)
              /\ Reports(Rows[f].raw[g],
                         IF timestamp_key \in DirectIn(f)
                         THEN ObservedGas(f, timestamp_key)[g] ELSE NAN,
                         1)
              /\ \A L \in analytics_df.columns :
                    /\ IsReportable(Rows[f].twa[L][g],
                                    Pow10(SAFE_ROUNDING_FACTORS[g]))
                    /\ IsReportable(Rows[f].gauge[L][g], 1)
                    /\ Reports(Rows[f].twa[L][g],
                               InternalTWA(CleanedBlock, ff_time_spans_df, f, g,
                                           timestamp_key, L),
                               Pow10(SAFE_ROUNDING_FACTORS[g]))
                    /\ Reports(Rows[f].gauge[L][g],
                               InternalGauge(CleanedBlock, ff_time_spans_df, f, g,
                                             timestamp_key, L),
                               1)

\* a persisted row holding the constant, a missing field and a positive
\* finite field side by side
C30_Witness ==
    /\ outcome = "done"
    /\ Len(to_sql) = 1
    /\ \E f \in DOMAIN Rows :
          /\ Fin(RANGE_EXCEEDED * Pow10(SAFE_ROUNDING_FACTORS[Gas]))
                 \in {Rows[f].twa[L][Gas] : L \in analytics_df.columns}
          /\ NAN \in OutputValues(Rows[f])
          /\ \E x \in OutputValues(Rows[f]) : IsFin(x) /\ x.val > 0

====
